---- MODULE Spec2Model ----
(***************************************************************************)
(* physics.rs: the Point type (a pair of f32) and its geometric operations.*)
(*                                                                         *)
(* An f32 is modelled bit-exactly as an IEEE-754 binary32 value: a record  *)
(* [k, s, m, e] that is NaN, an infinity, or the finite value              *)
(* (-1)^s * m * 2^e with a 24-bit significand m.  The arithmetic the       *)
(* source performs (+, -, *, /, sqrt, comparisons) is computed with        *)
(* round-to-nearest-even, overflow to infinity and gradual underflow.      *)
(***************************************************************************)
EXTENDS Integers, Sequences, FiniteSets

(***************************************************************************)
(* The binary32 format of the fields x and y.                              *)
(***************************************************************************)
MantBits == 24
EMin == -149
EMax == 104

NaN == [k |-> "nan", s |-> 0, m |-> 0, e |-> 0]
Inf(s) == [k |-> "inf", s |-> s, m |-> 0, e |-> 0]
Fin(s, m, e) == [k |-> "fin", s |-> s, m |-> m, e |-> e]
Zero(s) == Fin(s, 0, EMin)

IsNaN(x) == x.k = "nan"
IsInf(x) == x.k = "inf"
IsFin(x) == x.k = "fin"
IsZero(x) == x.k = "fin" /\ x.m = 0

Xor(s, t) == IF s = t THEN 0 ELSE 1

RECURSIVE BitLen(_)
BitLen(n) == IF n = 0 THEN 0 ELSE 1 + BitLen(n \div 2)

(* The value (-1)^s * n * 2^e (plus, when st, a non-zero part below the    *)
(* last bit of n) rounded to the nearest binary32, ties to even.           *)
Round(s, n, e, st) ==
  IF n = 0 THEN Zero(s)
  ELSE LET L == BitLen(n)
           te == IF e + L - MantBits < EMin THEN EMin ELSE e + L - MantBits
           sh == te - e
       IN IF sh <= 0
          THEN IF te > EMax THEN Inf(s) ELSE Fin(s, n * 2^(-sh), te)
          ELSE IF sh > 30 THEN Zero(s)
          ELSE LET q == n \div 2^sh
                   r == n % 2^sh
                   half == 2^(sh - 1)
                   up == r > half \/ (r = half /\ (st \/ q % 2 = 1))
                   m1 == IF up THEN q + 1 ELSE q
                   carry == m1 = 2^MantBits
                   m2 == IF carry THEN 2^(MantBits - 1) ELSE m1
                   e2 == IF carry THEN te + 1 ELSE te
               IN IF e2 > EMax THEN Inf(s)
                  ELSE IF m2 = 0 THEN Zero(s) ELSE Fin(s, m2, e2)

(* A finite non-zero value with its significand shifted up to 24 bits      *)
(* (a subnormal's exponent then lies below EMin).                          *)
Norm(x) ==
  LET sh == MantBits - BitLen(x.m)
  IN [m |-> x.m * 2^sh, e |-> x.e - sh]

F32Neg(x) == IF IsNaN(x) THEN NaN ELSE [x EXCEPT !.s = 1 - x.s]
F32Abs(x) == IF IsNaN(x) THEN NaN ELSE [x EXCEPT !.s = 0]

(* |x| < |y| for values that are not NaN. *)
MagLess(x, y) ==
  IF IsInf(x) THEN FALSE
  ELSE IF IsInf(y) THEN TRUE
  ELSE x.e < y.e \/ (x.e = y.e /\ x.m < y.m)

(* The comparisons of f32: false when an operand is NaN, -0.0 == 0.0. *)
F32Eq(x, y) ==
  /\ ~IsNaN(x) /\ ~IsNaN(y)
  /\ (IsZero(x) /\ IsZero(y)) \/ x = y

F32Lt(x, y) ==
  /\ ~IsNaN(x) /\ ~IsNaN(y)
  /\ ~(IsZero(x) /\ IsZero(y))
  /\ \/ x.s = 1 /\ y.s = 0
     \/ x.s = 0 /\ y.s = 0 /\ MagLess(x, y)
     \/ x.s = 1 /\ y.s = 1 /\ MagLess(y, x)

F32Ge(x, y) == ~IsNaN(x) /\ ~IsNaN(y) /\ ~F32Lt(x, y)
F32Gt(x, y) == F32Lt(y, x)

(* x + y *)
AddFin(x, y) ==
  LET swap == MagLess(x, y)
      X == IF swap THEN y ELSE x
      Y == IF swap THEN x ELSE y
      d == X.e - Y.e
      near == d <= 6
      NX == IF near THEN X.m * 2^d ELSE X.m * 64
      base == IF near THEN Y.e ELSE X.e - 6
      shY == d - 6
      NY == IF near THEN Y.m ELSE IF shY > 30 THEN 0 ELSE Y.m \div 2^shY
      stY == IF near THEN FALSE
             ELSE IF shY > 30 THEN Y.m # 0 ELSE Y.m % 2^shY # 0
  IN IF X.s = Y.s
     THEN Round(X.s, NX + NY, base, stY)
     ELSE LET n == NX - NY - (IF stY THEN 1 ELSE 0)
          IN IF n = 0 /\ ~stY THEN Zero(0) ELSE Round(X.s, n, base, stY)

F32Add(x, y) ==
  IF IsNaN(x) \/ IsNaN(y) THEN NaN
  ELSE IF IsInf(x) THEN (IF IsInf(y) /\ y.s # x.s THEN NaN ELSE x)
  ELSE IF IsInf(y) THEN y
  ELSE IF IsZero(x) /\ IsZero(y) THEN Zero(IF x.s = 1 /\ y.s = 1 THEN 1 ELSE 0)
  ELSE AddFin(x, y)

(* x - y *)
F32Sub(x, y) == F32Add(x, F32Neg(y))

(* x * y *)
MulFin(x, y) ==
  LET nx == Norm(x)
      ny == Norm(y)
      a1 == nx.m \div 4096
      a0 == nx.m % 4096
      b1 == ny.m \div 4096
      b0 == ny.m % 4096
      hh == a1 * b1
      mid == a1 * b0 + a0 * b1
      ll == a0 * b0
      low == (mid % 64) * 4096 + ll
      n == hh * 64 + mid \div 64 + low \div 262144
      st == low % 262144 # 0
  IN Round(Xor(x.s, y.s), n, nx.e + ny.e + 18, st)

F32Mul(x, y) ==
  IF IsNaN(x) \/ IsNaN(y) THEN NaN
  ELSE IF IsInf(x) \/ IsInf(y)
       THEN (IF IsZero(x) \/ IsZero(y) THEN NaN ELSE Inf(Xor(x.s, y.s)))
  ELSE IF IsZero(x) \/ IsZero(y) THEN Zero(Xor(x.s, y.s))
  ELSE MulFin(x, y)

(* x / y *)
RECURSIVE DivSteps(_, _, _, _)
DivSteps(r, d, q, k) ==
  IF k = 0 THEN <<q, r>>
  ELSE IF 2 * r >= d THEN DivSteps(2 * r - d, d, 2 * q + 1, k - 1)
       ELSE DivSteps(2 * r, d, 2 * q, k - 1)

DivFin(x, y) ==
  LET nx == Norm(x)
      ny == Norm(y)
      q0 == IF nx.m >= ny.m THEN 1 ELSE 0
      qr == DivSteps(nx.m - q0 * ny.m, ny.m, q0, 26)
  IN Round(Xor(x.s, y.s), qr[1], nx.e - ny.e - 26, qr[2] # 0)

F32Div(x, y) ==
  IF IsNaN(x) \/ IsNaN(y) THEN NaN
  ELSE IF IsInf(x) THEN (IF IsInf(y) THEN NaN ELSE Inf(Xor(x.s, y.s)))
  ELSE IF IsInf(y) THEN Zero(Xor(x.s, y.s))
  ELSE IF IsZero(y) THEN (IF IsZero(x) THEN NaN ELSE Inf(Xor(x.s, y.s)))
  ELSE IF IsZero(x) THEN Zero(Xor(x.s, y.s))
  ELSE DivFin(x, y)

(* sqrt(x) *)
RECURSIVE SqrtSteps(_, _, _, _)
SqrtSteps(m, rem, root, i) ==
  IF i < -14 THEN <<root, rem>>
  ELSE LET pair == IF i >= 0 THEN (m \div 4^i) % 4 ELSE 0
           r4 == rem * 4 + pair
           t == 4 * root + 1
       IN IF r4 >= t THEN SqrtSteps(m, r4 - t, 2 * root + 1, i - 1)
          ELSE SqrtSteps(m, r4, 2 * root, i - 1)

SqrtFin(x) ==
  LET nx == Norm(x)
      odd == nx.e % 2 = 1
      m2 == IF odd THEN 2 * nx.m ELSE nx.m
      e2 == IF odd THEN nx.e - 1 ELSE nx.e
      rr == SqrtSteps(m2, 0, 0, 12)
  IN Round(0, rr[1], (e2 - 28) \div 2, rr[2] # 0)

F32Sqrt(x) ==
  IF IsNaN(x) THEN NaN
  ELSE IF IsZero(x) THEN x
  ELSE IF x.s = 1 THEN NaN
  ELSE IF IsInf(x) THEN x
  ELSE SqrtFin(x)

(* A small integer as an f32 (exact for |n| < 2^24). *)
F32Int(n) == IF n < 0 THEN Round(1, -n, 0, FALSE) ELSE Round(0, n, 0, FALSE)

One == F32Int(1)
F90 == F32Int(90)
F360 == F32Int(360)
(* 2^k as an f32, for a normal exponent k *)
F32Pow2(k) == Fin(0, 2^(MantBits - 1), k - (MantBits - 1))
(* std::f32::consts::PI, FRAC_PI_2, FRAC_PI_4 and 3*PI/4 as f32 *)
PI == Fin(0, 13176795, -22)
FRAC_PI_2 == Fin(0, 13176795, -23)
FRAC_PI_4 == Fin(0, 13176795, -24)
THREE_FRAC_PI_4 == Fin(0, 9882596, -22)
(* f32::to_degrees multiplies by the f32 constant 180/pi = 57.29578 *)
PIS_IN_180 == Fin(0, 15019745, -18)
(* f32::MAX *)
F32Max == Fin(0, 2^MantBits - 1, EMax)

WithSign(s, x) == [x EXCEPT !.s = s]

(***************************************************************************)
(* f32::atan2, f32::cos and f32::sin are library calls.  They are modelled *)
(* by their values (the correctly rounded binary32 results) at the         *)
(* arguments the bounded input set below produces.                         *)
(*                                                                         *)
(* AtanTable: <<|y|.m, |y|.e, |x|.m, |x|.e, m1, e1, m2, e2>> where         *)
(* atan2(|y|, |x|) = m1 * 2^e1 and atan2(|y|, -|x|) = m2 * 2^e2.           *)
(***************************************************************************)
AtanTable ==
  { <<8388608, -23, 8388608, -23, 13176795, -24, 9882596, -22>>,
    <<8388608, -23, 8388608, -22, 15557432, -25, 11232116, -22>>,
    <<8388608, -23, 12582912, -22, 10796157, -25, 11827275, -22>>,
    <<8388608, -23, 8388608, -21, 16440240, -26, 12149280, -22>>,
    <<8388608, -23, 10485760, -21, 13246992, -26, 12348858, -22>>,
    <<8388608, -23, 12582912, -21, 11082940, -26, 12484111, -22>>,
    <<8388608, -23, 10485760, -20, 13377300, -27, 12758754, -22>>,
    <<8388608, -23, 8388608, 3, 8388608, -49, 13176795, -22>>,
    <<8388608, -22, 8388608, -23, 9287437, -23, 8533076, -22>>,
    <<8388608, -22, 8388608, -22, 13176795, -24, 9882596, -22>>,
    <<8388608, -22, 12582912, -22, 9865047, -24, 10710533, -22>>,
    <<8388608, -22, 8388608, -21, 15557432, -25, 11232116, -22>>,
    <<8388608, -22, 10485760, -21, 12767675, -25, 11580835, -22>>,
    <<8388608, -22, 12582912, -21, 10796157, -25, 11827275, -22>>,
    <<8388608, -22, 8388608, -20, 16440240, -26, 12149280, -22>>,
    <<8388608, -22, 10485760, -20, 13246992, -26, 12348858, -22>>,
    <<8388608, -22, 12582912, -20, 11082940, -26, 12484111, -22>>,
    <<8388608, -22, 10485760, -19, 13377300, -27, 12758754, -22>>,
    <<8388608, -22, 8388608, 4, 8388608, -49, 13176795, -22>>,
    <<12582912, -22, 8388608, -23, 10477755, -23, 15875834, -23>>,
    <<12582912, -22, 8388608, -22, 16488543, -24, 9054659, -22>>,
    <<12582912, -22, 12582912, -22, 13176795, -24, 9882596, -22>>,
    <<12582912, -22, 8388608, -21, 10796157, -24, 10477755, -22>>,
    <<12582912, -22, 10485760, -21, 9066735, -24, 10910111, -22>>,
    <<12582912, -22, 12582912, -21, 15557432, -25, 11232116, -22>>,
    <<12582912, -22, 9437184, -20, 10796157, -25, 11827275, -22>>,
    <<12582912, -22, 15728640, -19, 13377300, -27, 12758754, -22>>,
    <<12582912, -22, 12582912, 4, 8388608, -49, 13176795, -22>>,
    <<8388608, -21, 8388608, -23, 11121765, -23, 15231825, -23>>,
    <<8388608, -21, 8388608, -22, 9287437, -23, 8533076, -22>>,
    <<8388608, -21, 12582912, -22, 15557432, -24, 9287437, -22>>,
    <<8388608, -21, 8388608, -21, 13176795, -24, 9882596, -22>>,
    <<8388608, -21, 10485760, -21, 11320275, -24, 10346726, -22>>,
    <<8388608, -21, 12582912, -21, 9865047, -24, 10710533, -22>>,
    <<8388608, -21, 8388608, -20, 15557432, -25, 11232116, -22>>,
    <<8388608, -21, 10485760, -20, 12767675, -25, 11580835, -22>>,
    <<8388608, -21, 12582912, -20, 10796157, -25, 11827275, -22>>,
    <<10485760, -21, 8388608, -23, 11520921, -23, 14832669, -23>>,
    <<10485760, -21, 8388608, -22, 9984876, -23, 16368713, -23>>,
    <<10485760, -21, 12582912, -22, 8643427, -23, 8855081, -22>>,
    <<10485760, -21, 8388608, -21, 15033315, -24, 9418466, -22>>,
    <<10485760, -21, 10485760, -21, 13176795, -24, 9882596, -22>>,
    <<10485760, -21, 12582912, -21, 11655774, -24, 10262851, -22>>,
    <<12582912, -21, 8388608, -23, 11791427, -23, 14562162, -23>>,
    <<12582912, -21, 8388608, -22, 10477755, -23, 15875834, -23>>,
    <<12582912, -21, 12582912, -22, 9287437, -23, 8533076, -22>>,
    <<12582912, -21, 8388608, -21, 16488543, -24, 9054659, -22>>,
    <<12582912, -21, 10485760, -21, 14697815, -24, 9502341, -22>>,
    <<12582912, -21, 12582912, -21, 13176795, -24, 9882596, -22>>,
    <<12582912, -21, 8388608, -20, 10796157, -24, 10477755, -22>>,
    <<12582912, -21, 9437184, -20, 9865047, -24, 10710533, -22>>,
    <<12582912, -21, 10485760, -20, 9066735, -24, 10910111, -22>>,
    <<12582912, -21, 12582912, -20, 15557432, -25, 11232116, -22>>,
    <<8388608, -20, 8388608, -22, 11121765, -23, 15231825, -23>>,
    <<8388608, -20, 8388608, -21, 9287437, -23, 8533076, -22>>,
    <<8388608, -20, 12582912, -21, 15557432, -24, 9287437, -22>>,
    <<8388608, -20, 8388608, -20, 13176795, -24, 9882596, -22>>,
    <<8388608, -20, 10485760, -20, 11320275, -24, 10346726, -22>>,
    <<8388608, -20, 12582912, -20, 9865047, -24, 10710533, -22>>,
    <<9437184, -20, 12582912, -22, 10477755, -23, 15875834, -23>>,
    <<9437184, -20, 12582912, -21, 16488543, -24, 9054659, -22>>,
    <<9437184, -20, 9437184, -20, 13176795, -24, 9882596, -22>>,
    <<10485760, -20, 8388608, -22, 11520921, -23, 14832669, -23>>,
    <<10485760, -20, 8388608, -21, 9984876, -23, 16368713, -23>>,
    <<10485760, -20, 12582912, -21, 8643427, -23, 8855081, -22>>,
    <<10485760, -20, 8388608, -20, 15033315, -24, 9418466, -22>>,
    <<10485760, -20, 10485760, -20, 13176795, -24, 9882596, -22>>,
    <<10485760, -20, 12582912, -20, 11655774, -24, 10262851, -22>>,
    <<12582912, -20, 8388608, -22, 11791427, -23, 14562162, -23>>,
    <<12582912, -20, 8388608, -21, 10477755, -23, 15875834, -23>>,
    <<12582912, -20, 12582912, -21, 9287437, -23, 8533076, -22>>,
    <<12582912, -20, 8388608, -20, 16488543, -24, 9054659, -22>>,
    <<12582912, -20, 10485760, -20, 14697815, -24, 9502341, -22>>,
    <<12582912, -20, 12582912, -20, 13176795, -24, 9882596, -22>>,
    <<12582912, -20, 8388608, -19, 10796157, -24, 10477755, -22>>,
    <<13631488, -20, 13631488, -20, 13176795, -24, 9882596, -22>>,
    <<9437184, -19, 12582912, -19, 10796157, -24, 10477755, -22>>,
    <<12058624, -19, 10485760, -20, 9736397, -23, 16617192, -23>>,
    <<13631488, -19, 13631488, -19, 13176795, -24, 9882596, -22>>,
    <<10223616, -18, 10223616, -18, 13176795, -24, 9882596, -22>>,
    <<12058624, -18, 10485760, -19, 9736397, -23, 16617192, -23>>,
    <<8388608, 1, 8388608, -22, 13176794, -23, 13176796, -23>>,
    <<8388608, 2, 8388608, -21, 13176794, -23, 13176796, -23>>,
    <<12582912, 2, 12582912, -21, 13176794, -23, 13176796, -23>> }

(* TrigTable: <<t.m, t.e, cs, cm, ce, ss, sm, se>> where, for t = m * 2^e,  *)
(* cos(t) = (-1)^cs * cm * 2^ce and sin(t) = (-1)^ss * sm * 2^se.          *)
TrigTable ==
  { <<8388608, -49, 0, 8388608, -23, 0, 8388608, -49>>,
    <<13377300, -27, 0, 16693954, -24, 0, 13355163, -27>>,
    <<11082940, -26, 0, 16548944, -24, 0, 11032629, -26>>,
    <<13246992, -26, 0, 16451414, -24, 0, 13161131, -26>>,
    <<16440240, -26, 0, 16276290, -24, 0, 16276290, -26>>,
    <<10796157, -25, 0, 15916265, -24, 0, 10610843, -25>>,
    <<12767675, -25, 0, 15577254, -24, 0, 12461803, -25>>,
    <<15557432, -25, 0, 15005998, -24, 0, 15005998, -25>>,
    <<9066735, -24, 0, 14386344, -24, 0, 8631807, -24>>,
    <<9865047, -24, 0, 13959487, -24, 0, 9306325, -24>>,
    <<10796157, -24, 0, 13421773, -24, 0, 10066330, -24>>,
    <<11320275, -24, 0, 13100804, -24, 0, 10480644, -24>>,
    <<11655774, -24, 0, 12888614, -24, 0, 10740512, -24>>,
    <<13176795, -24, 0, 11863283, -24, 0, 11863283, -24>>,
    <<14697815, -24, 0, 10740512, -24, 0, 12888614, -24>>,
    <<15033315, -24, 0, 10480644, -24, 0, 13100805, -24>>,
    <<15557432, -24, 0, 10066330, -24, 0, 13421773, -24>>,
    <<16488543, -24, 0, 9306325, -24, 0, 13959488, -24>>,
    <<8643427, -23, 0, 8631807, -24, 0, 14386344, -24>>,
    <<9287437, -23, 0, 15005997, -25, 0, 15005999, -24>>,
    <<9736397, -23, 0, 13379029, -25, 0, 15385882, -24>>,
    <<9984876, -23, 0, 12461802, -25, 0, 15577254, -24>>,
    <<10477755, -23, 0, 10610844, -25, 0, 15916264, -24>>,
    <<11121765, -23, 0, 16276288, -26, 0, 16276290, -24>>,
    <<11520921, -23, 0, 13161128, -26, 0, 16451414, -24>>,
    <<11791427, -23, 0, 11032630, -26, 0, 16548944, -24>>,
    <<13176794, -23, 0, 10625385, -47, 0, 8388608, -23>>,
    <<13176795, -23, 1, 12303662, -48, 0, 8388608, -23>>,
    <<13176796, -23, 1, 11464524, -46, 0, 8388608, -23>>,
    <<14562162, -23, 1, 11032628, -26, 0, 16548944, -24>>,
    <<14832669, -23, 1, 13161134, -26, 0, 16451414, -24>>,
    <<15231825, -23, 1, 16276293, -26, 0, 16276290, -24>>,
    <<15875834, -23, 1, 10610843, -25, 0, 15916265, -24>>,
    <<16368713, -23, 1, 12461801, -25, 0, 15577254, -24>>,
    <<16617192, -23, 1, 13379028, -25, 0, 15385883, -24>>,
    <<8533076, -22, 1, 15005996, -25, 0, 15005999, -24>>,
    <<8855081, -22, 1, 8631806, -24, 0, 14386344, -24>>,
    <<9054659, -22, 1, 9306325, -24, 0, 13959487, -24>>,
    <<9287437, -22, 1, 10066331, -24, 0, 13421772, -24>>,
    <<9418466, -22, 1, 10480644, -24, 0, 13100805, -24>>,
    <<9502341, -22, 1, 10740512, -24, 0, 12888614, -24>>,
    <<9882596, -22, 1, 11863283, -24, 0, 11863283, -24>>,
    <<10262851, -22, 1, 12888614, -24, 0, 10740512, -24>>,
    <<10346726, -22, 1, 13100805, -24, 0, 10480644, -24>>,
    <<10477755, -22, 1, 13421772, -24, 0, 10066331, -24>>,
    <<10710533, -22, 1, 13959488, -24, 0, 9306325, -24>>,
    <<10910111, -22, 1, 14386344, -24, 0, 8631806, -24>>,
    <<11232116, -22, 1, 15005999, -24, 0, 15005995, -25>>,
    <<11580835, -22, 1, 15577254, -24, 0, 12461805, -25>>,
    <<11827275, -22, 1, 15916265, -24, 0, 10610843, -25>>,
    <<12149280, -22, 1, 16276291, -24, 0, 16276285, -26>>,
    <<12348858, -22, 1, 16451414, -24, 0, 13161126, -26>>,
    <<12484111, -22, 1, 16548944, -24, 0, 11032627, -26>>,
    <<12758754, -22, 1, 16693954, -24, 0, 13355163, -27>>,
    <<13176795, -22, 1, 8388608, -23, 1, 12303662, -47>> }

AtanRow(y, x) ==
  CHOOSE r \in AtanTable : r[1] = y.m /\ r[2] = y.e /\ r[3] = x.m /\ r[4] = x.e

(* y.atan2(x): the special cases of IEEE 754 / C Annex F, else the table.  *)
(* The result carries the sign of y.                                       *)
Atan2(y, x) ==
  IF IsNaN(x) \/ IsNaN(y) THEN NaN
  ELSE IF IsZero(y) THEN (IF x.s = 0 THEN Zero(y.s) ELSE WithSign(y.s, PI))
  ELSE IF IsZero(x) THEN WithSign(y.s, FRAC_PI_2)
  ELSE IF IsInf(x) /\ IsInf(y)
       THEN WithSign(y.s, IF x.s = 0 THEN FRAC_PI_4 ELSE THREE_FRAC_PI_4)
  ELSE IF IsInf(x) THEN (IF x.s = 0 THEN Zero(y.s) ELSE WithSign(y.s, PI))
  ELSE IF IsInf(y) THEN WithSign(y.s, FRAC_PI_2)
  ELSE LET r == AtanRow(y, x)
       IN IF x.s = 0 THEN Fin(y.s, r[5], r[6]) ELSE Fin(y.s, r[7], r[8])

TrigRow(t) == CHOOSE r \in TrigTable : r[1] = t.m /\ r[2] = t.e

(* t.cos(): even in t *)
Cos(t) ==
  IF IsNaN(t) \/ IsInf(t) THEN NaN
  ELSE IF IsZero(t) THEN One
  ELSE LET r == TrigRow(t) IN Fin(r[3], r[4], r[5])

(* t.sin(): odd in t *)
Sin(t) ==
  IF IsNaN(t) \/ IsInf(t) THEN NaN
  ELSE IF IsZero(t) THEN t
  ELSE LET r == TrigRow(t) IN Fin(Xor(t.s, r[6]), r[7], r[8])

(* x.powi(2): one multiplication *)
Powi2(x) == F32Mul(x, x)

(* x.to_degrees() *)
ToDegrees(x) == F32Mul(x, PIS_IN_180)

(***************************************************************************)
(* struct Point { x: f32, y: f32 } and its methods.                        *)
(***************************************************************************)
Point(x, y) == [x |-> x, y |-> y]

squared(self) == F32Add(Powi2(self.x), Powi2(self.y))

abs(self) == F32Sqrt(squared(self))

(* unit with a zero-length guard, the hardening the code does not have *)
unit_Guarded(self) ==
  LET length == abs(self)
  IN IF F32Eq(length, Zero(0)) THEN self
     ELSE Point(F32Div(self.x, length), F32Div(self.y, length))

unit(self) ==
  LET length == abs(self)
  IN Point(F32Div(self.x, length), F32Div(self.y, length))

(* add with x used for both components *)
add_SameField(self, other) == Point(F32Add(self.x, other.x), F32Add(self.y, other.x))

add(self, other) == Point(F32Add(self.x, other.x), F32Add(self.y, other.y))

sub(self, other) == Point(F32Sub(self.x, other.x), F32Sub(self.y, other.y))

(* distance_to without the square root *)
distance_to_Squared(self, other) ==
  LET diff == sub(self, other)
  IN squared(diff)

distance_to(self, other) ==
  LET diff == sub(self, other)
  IN abs(diff)

(* angle_to with the operands of sub exchanged: self minus other *)
angle_to_Reversed(self, other) ==
  LET diff == sub(self, other)
  IN Atan2(diff.y, diff.x)

angle_to(self, other) ==
  LET diff == sub(other, self)
  IN Atan2(diff.y, diff.x)

(* movement_to with sine and cosine exchanged *)
movement_to_Exchanged(self, other) ==
  LET t == angle_to(self, other)
  IN Point(Sin(t), Cos(t))

movement_to(self, other) ==
  LET t == angle_to(self, other)
  IN Point(Cos(t), Sin(t))

(* rotated with the signs of the sine terms exchanged: a clockwise turn *)
rotated_Clockwise(self, radians) ==
  LET cos == Cos(radians)
      sin == Sin(radians)
      x == F32Add(F32Mul(self.x, cos), F32Mul(self.y, sin))
      y == F32Sub(F32Mul(self.y, cos), F32Mul(self.x, sin))
  IN Point(x, y)

rotated(self, radians) ==
  LET cos == Cos(radians)
      sin == Sin(radians)
      x == F32Sub(F32Mul(self.x, cos), F32Mul(self.y, sin))
      y == F32Add(F32Mul(self.x, sin), F32Mul(self.y, cos))
  IN Point(x, y)

angle(self) == Atan2(self.y, self.x)

(* user_angle, line by line.  The guard of line 109. *)
IsOrigin(self) == F32Eq(self.x, Zero(0)) /\ F32Eq(self.y, Zero(0))

(* line 112 with the operands of the subtraction exchanged *)
UserAngleStart_Reversed(self) == F32Sub(ToDegrees(angle(self)), F90)

(* line 112: let mut angle = 90.0 - self.angle().to_degrees() *)
UserAngleStart(self) == F32Sub(F90, ToDegrees(angle(self)))

(* lines 113-115: the condition and the body of the first loop *)
GeCond(t) == F32Ge(t, F360)
GeBody(t) == F32Sub(t, F360)

(* lines 116-118: the condition and the body of the second loop *)
LtCond(t) == F32Lt(t, Zero(0))

(* the body of the first loop repeated in the second *)
LtBody_Subtracts(t) == F32Sub(t, F360)

LtBody(t) == F32Add(t, F360)

(* The loops run to their end.  MaxIter caps the unrolling. *)
MaxIter == 3

RECURSIVE WhileGe(_, _)
WhileGe(t, n) == IF GeCond(t) /\ n < MaxIter THEN WhileGe(GeBody(t), n + 1) ELSE t

RECURSIVE WhileLt(_, _)
WhileLt(t, n) == IF LtCond(t) /\ n < MaxIter THEN WhileLt(LtBody(t), n + 1) ELSE t

(* user_angle as a function of its input *)
user_angle(self) ==
  IF IsOrigin(self) THEN Zero(0)
  ELSE WhileLt(WhileGe(UserAngleStart(self), 0), 0)

(* tests::similar_points: both coordinates within 0.000001 *)
Epsilon == Fin(0, 8796093, -43)

similar_points(p, q) ==
  LET e1 == F32Abs(F32Sub(p.x, q.x))
      e2 == F32Abs(F32Sub(p.y, q.y))
  IN F32Lt(e1, Epsilon) /\ F32Lt(e2, Epsilon)

(***************************************************************************)
(* The inputs: every pair of points of a small integer grid, and pairs     *)
(* that reach the edges of the f32 range and of the angle conventions:     *)
(* signed zeros, values that round, overflow or underflow, the vectors of  *)
(* the tests, and fields that are infinite or NaN (x and y are public and  *)
(* unconstrained).                                                         *)
(***************************************************************************)
MaxCoord == 2
MaxTurns == 4

Grid == {Point(F32Int(i), F32Int(j)) : i, j \in -MaxCoord..MaxCoord}

Origin == Point(Zero(0), Zero(0))

SpecialPairs ==
  { <<Point(F32Int(-2), F32Pow2(24)), Origin>>,
    <<Origin, Point(F32Int(-1), Zero(1))>>,
    <<Point(F32Int(-1), Zero(1)), Origin>>,
    <<Point(One, Zero(0)), Point(F32Pow2(25), Zero(0))>>,
    <<Point(F32Pow2(-75), Zero(0)), Origin>>,
    <<Point(F32Pow2(64), Zero(0)), Origin>>,
    <<Point(F32Int(-10), One), Origin>>,
    <<Point(F32Int(-13), F32Int(-13)), Origin>>,
    <<Point(F32Int(10), Zero(0)), Point(Zero(0), F32Int(-23))>>,
    <<Point(F32Neg(F32Pow2(26)), F32Int(-1)), Origin>>,
    <<Point(F32Max, Zero(0)), Point(F32Neg(F32Max), Zero(0))>>,
    <<Point(F32Int(8), F32Int(6)), Point(F32Int(2), F32Int(3))>>,
    <<Point(One, Zero(0)), Point(One, Zero(1))>>,
    <<Point(Inf(0), One), Origin>>,
    <<Point(Inf(0), One), Point(Inf(0), One)>>,
    <<Point(NaN, One), Origin>> }

Inputs == (Grid \X Grid) \cup SpecialPairs

Thetas == {Zero(0), FRAC_PI_2, PI}

NoValue == [k |-> "none", s |-> 0, m |-> 0, e |-> 0]
NoPoint == Point(NoValue, NoValue)

VARIABLES
  a,      \* self
  b,      \* other
  call,   \* the method called
  pt,     \* the Point it returned
  sc,     \* the f32 it returned
  theta,  \* the argument of rotated
  turns,  \* how many times rotated was applied in a row
  pc,     \* user_angle: idle, ge (first loop), lt (second loop), done
  ang,    \* user_angle: the local variable angle
  nGe,    \* user_angle: executions of the first loop's body
  nLt     \* user_angle: executions of the second loop's body

vars == <<a, b, call, pt, sc, theta, turns, pc, ang, nGe, nLt>>

Init ==
  /\ \E in \in Inputs : a = in[1] /\ b = in[2]
  /\ call = "none"
  /\ pt = NoPoint
  /\ sc = NoValue
  /\ theta = NoValue
  /\ turns = 0
  /\ pc = "idle"
  /\ ang = NoValue
  /\ nGe = 0
  /\ nLt = 0

ReturnsF32(name, v) ==
  /\ call = "none"
  /\ call' = name
  /\ sc' = v
  /\ UNCHANGED <<a, b, pt, theta, turns, pc, ang, nGe, nLt>>

ReturnsPoint(name, p) ==
  /\ call = "none"
  /\ call' = name
  /\ pt' = p
  /\ UNCHANGED <<a, b, sc, theta, turns, pc, ang, nGe, nLt>>

Squared == ReturnsF32("squared", squared(a))
Abs == ReturnsF32("abs", abs(a))
Unit == ReturnsPoint("unit", unit(a))
Add == ReturnsPoint("add", add(a, b))
Sub == ReturnsPoint("sub", sub(a, b))
DistanceTo == ReturnsF32("distance_to", distance_to(a, b))
AngleTo == ReturnsF32("angle_to", angle_to(a, b))
MovementTo == ReturnsPoint("movement_to", movement_to(a, b))
Angle == ReturnsF32("angle", angle(a))

Rotated ==
  /\ call = "none"
  /\ \E radians \in Thetas :
       /\ pt' = rotated(a, radians)
       /\ theta' = radians
  /\ call' = "rotated"
  /\ turns' = 1
  /\ UNCHANGED <<a, b, sc, pc, ang, nGe, nLt>>

(* The result rotated again by the same angle: x.rotated(r).rotated(r)... *)
RotatedAgain ==
  /\ call = "rotated"
  /\ turns < MaxTurns
  /\ pt' = rotated(pt, theta)
  /\ turns' = turns + 1
  /\ UNCHANGED <<a, b, call, sc, theta, pc, ang, nGe, nLt>>

(* a.sub(b).add(b) *)
AddBack ==
  /\ call = "sub"
  /\ call' = "sub_add"
  /\ pt' = add(pt, b)
  /\ UNCHANGED <<a, b, sc, theta, turns, pc, ang, nGe, nLt>>

(* a.unit().abs() and a.movement_to(b).abs() *)
AbsOfResult ==
  /\ call \in {"unit", "movement_to"}
  /\ call' = IF call = "unit" THEN "unit_abs" ELSE "movement_to_abs"
  /\ sc' = abs(pt)
  /\ UNCHANGED <<a, b, pt, theta, turns, pc, ang, nGe, nLt>>

(* user_angle, lines 109-112 *)
UserAngleEnter ==
  /\ call = "none"
  /\ call' = "user_angle"
  /\ IF IsOrigin(a)
     THEN sc' = Zero(0) /\ pc' = "done" /\ ang' = ang
     ELSE ang' = UserAngleStart(a) /\ pc' = "ge" /\ sc' = sc
  /\ UNCHANGED <<a, b, pt, theta, turns, nGe, nLt>>

(* lines 113-115: one test of the first loop *)
UserAngleWhileGe ==
  /\ pc = "ge"
  /\ IF GeCond(ang)
     THEN nGe < MaxIter /\ ang' = GeBody(ang) /\ nGe' = nGe + 1 /\ pc' = pc
     ELSE ang' = ang /\ nGe' = nGe /\ pc' = "lt"
  /\ UNCHANGED <<a, b, call, pt, sc, theta, turns, nLt>>

(* lines 116-119: one test of the second loop; the return *)
UserAngleWhileLt ==
  /\ pc = "lt"
  /\ IF LtCond(ang)
     THEN nLt < MaxIter /\ ang' = LtBody(ang) /\ nLt' = nLt + 1 /\ pc' = pc /\ sc' = sc
     ELSE ang' = ang /\ nLt' = nLt /\ pc' = "done" /\ sc' = ang
  /\ UNCHANGED <<a, b, call, pt, theta, turns, nGe>>

Next ==
  \/ Squared
  \/ Abs
  \/ Unit
  \/ Add
  \/ Sub
  \/ DistanceTo
  \/ AngleTo
  \/ MovementTo
  \/ Angle
  \/ Rotated
  \/ RotatedAgain
  \/ AddBack
  \/ AbsOfResult
  \/ UserAngleEnter
  \/ UserAngleWhileGe
  \/ UserAngleWhileLt

Spec == Init /\ [][Next]_vars

(* A call runs to its end: the loops of user_angle keep being tested. *)
FairSpec ==
  Spec /\ WF_vars(UserAngleWhileGe) /\ WF_vars(UserAngleWhileLt)
(***************************************************************************)
(* The properties.                                                         *)
(***************************************************************************)
(* #[derive(PartialEq)]: field-wise equality of f32 *)
PointEq(p, q) == F32Eq(p.x, q.x) /\ F32Eq(p.y, q.y)

F32Le(x, y) == F32Ge(y, x)

(* both components are finite: neither NaN nor infinite *)
Finite(p) == IsFin(p.x) /\ IsFin(p.y)

UserAngleDone == call = "user_angle" /\ pc = "done"

Sgn(x) == IF IsZero(x) THEN 0 ELSE IF x.s = 1 THEN -1 ELSE 1

(* p is the origin or lies on one of the eight compass directions *)
OnCompass(p) == IsZero(p.x) \/ IsZero(p.y) \/ F32Abs(p.x) = F32Abs(p.y)

(* The user angle of the eight directions, as the header of physics.rs     *)
(* draws them: 315 0 45 / 270 o 90 / 225 180 135.                          *)
CompassDegrees(p) ==
  LET d == <<Sgn(p.x), Sgn(p.y)>>
  IN CASE d = <<0, 0>> -> 0
       [] d = <<0, 1>> -> 0
       [] d = <<1, 1>> -> 45
       [] d = <<1, 0>> -> 90
       [] d = <<1, -1>> -> 135
       [] d = <<0, -1>> -> 180
       [] d = <<-1, -1>> -> 225
       [] d = <<-1, 0>> -> 270
       [] d = <<-1, 1>> -> 315

Twice(p) == add(p, p)
Thrice(p) == add(add(p, p), p)

(* C1: user_angle() returns a value r with 0 <= r < 360 for every vector,  *)
(* stated here for the vectors with finite components.  The code returns   *)
(* 360.0 for (-2, 2^24): 90 - 90.00001 = -2^-17, and -2^-17 + 360 rounds   *)
(* to 360.0.                                                               *)
C1_UserAngleInRange ==
  (UserAngleDone /\ Finite(a)) => F32Ge(sc, Zero(0)) /\ F32Lt(sc, F360)

(* C2: user_angle() gives the compass degrees of the eight directions      *)
(* (0, 45, ..., 315, clockwise from north) whatever the length of the      *)
(* vector, 0 for the zero vector through the guard (the general formula    *)
(* would give 90), and the same value for a vector, its double and its     *)
(* triple.                                                                 *)
C2_UserAngleCompass ==
  UserAngleDone =>
    /\ OnCompass(a) => sc = F32Int(CompassDegrees(a))
    /\ IsOrigin(a) => WhileLt(WhileGe(UserAngleStart(a), 0), 0) = F90
    /\ ~IsOrigin(a) => /\ user_angle(Twice(a)) = sc
                       /\ user_angle(Thrice(a)) = sc

C2_Witness ==
  /\ UserAngleDone
  /\ a = Point(F32Int(-2), F32Int(2))
  /\ sc = F32Int(315)

(* C10 as stated: the first loop never runs its body, the second at most   *)
(* once, angle() in degrees lies in (-180, 180] and 90 - angle in          *)
(* [-90, 270).                                                             *)
C10_Original ==
  (call = "user_angle" /\ ~IsOrigin(a)) =>
    /\ nGe = 0
    /\ nLt <= 1
    /\ F32Gt(ToDegrees(angle(a)), F32Int(-180))
    /\ F32Le(ToDegrees(angle(a)), F32Int(180))
    /\ F32Ge(UserAngleStart(a), F32Int(-90))
    /\ F32Lt(UserAngleStart(a), F32Int(270))

(* C10, amended: user_angle() terminates for every input vector; the first *)
(* loop never runs its body and the second at most once; for a non-zero    *)
(* vector with finite components angle() in degrees lies in [-180, 180]    *)
(* and 90 - angle in [-90, 270] (-180 and 270 are reached at (-1, -0.0)).  *)
C10_UserAngleTerminates ==
  /\ [](call = "user_angle" =>
          /\ nGe = 0
          /\ nLt <= 1
          /\ (~IsOrigin(a) /\ Finite(a)) =>
               /\ F32Ge(ToDegrees(angle(a)), F32Int(-180))
               /\ F32Le(ToDegrees(angle(a)), F32Int(180))
               /\ F32Ge(UserAngleStart(a), F32Int(-90))
               /\ F32Le(UserAngleStart(a), F32Int(270)))
  /\ (call = "user_angle") ~> (pc = "done")

C10_Witness ==
  /\ UserAngleDone
  /\ nGe = 0
  /\ nLt = 1
  /\ a = Point(F32Int(-1), Zero(0))
  /\ sc = F32Int(270)

Toward(v, d) ==
  LET cross == F32Sub(F32Mul(v.x, d.y), F32Mul(v.y, d.x))
      dot == F32Add(F32Mul(v.x, d.x), F32Mul(v.y, d.y))
      size == F32Add(F32Abs(d.x), F32Abs(d.y))
  IN F32Le(F32Abs(cross), F32Mul(Epsilon, size)) /\ F32Gt(dot, Zero(0))

(* the point twice as far from p as q, in the same direction *)
Farther(p, q) == add(q, sub(q, p))

MovementToDone == call \in {"movement_to", "movement_to_abs"}

Turned(v, radians) ==
  CASE radians = Zero(0) -> v
    [] radians = FRAC_PI_2 -> Point(F32Neg(v.y), v.x)
    [] radians = PI -> Point(F32Neg(v.x), F32Neg(v.y))

F32Max2(x, y) == IF F32Lt(x, y) THEN y ELSE x

(* 0.000001 * max(1, |x|, |y|) *)
Tolerance(v) == F32Mul(Epsilon, F32Max2(One, F32Max2(F32Abs(v.x), F32Abs(v.y))))

Within(p, q, tol) ==
  /\ F32Lt(F32Abs(F32Sub(p.x, q.x)), tol)
  /\ F32Lt(F32Abs(F32Sub(p.y, q.y)), tol)

(* |x| <= 2^64 and |y| <= 2^64 *)
InRange(v) ==
  /\ Finite(v)
  /\ F32Le(F32Abs(v.x), F32Pow2(64))
  /\ F32Le(F32Abs(v.y), F32Pow2(64))

(* C5 as stated: for every vector, rotated(0), rotated(pi/2) and           *)
(* rotated(pi) return v, (-y, x) and (-x, -y) within 0.000001, and four    *)
(* quarter turns return the vector.                                        *)
C5_Original ==
  call = "rotated" =>
    /\ turns = 1 => similar_points(pt, Turned(a, theta))
    /\ (turns = 4 /\ theta = FRAC_PI_2) => similar_points(pt, a)

(* C5, amended: rotated(theta) rotates counter-clockwise: for every vector *)
(* with |x| <= 2^64 and |y| <= 2^64, rotated(0), rotated(pi/2) and         *)
(* rotated(pi) return v, (-y, x) and (-x, -y), and four quarter turns      *)
(* return v, each within the tolerance 0.000001 * max(1, |x|, |y|): the    *)
(* error grows with the size of the vector.                                *)
C5_Rotated ==
  (call = "rotated" /\ InRange(a)) =>
    /\ turns = 1 => Within(pt, Turned(a, theta), Tolerance(a))
    /\ (turns = 4 /\ theta = FRAC_PI_2) => Within(pt, a, Tolerance(a))

C5_Witness ==
  /\ call = "rotated"
  /\ a = Point(F32Int(-10), One)
  /\ theta = FRAC_PI_2
  /\ turns = 4
  /\ ~similar_points(pt, a)
  /\ Within(pt, a, Tolerance(a))

(* C6 as stated: a.sub(b).add(b) == a for all vectors. *)
C6_Original == call = "sub_add" => PointEq(pt, a)

(* x is an integer of magnitude at most 2^23 *)
SmallInt(x) ==
  /\ IsFin(x)
  /\ F32Le(F32Abs(x), F32Pow2(23))
  /\ IsZero(x) \/ x.e >= 0 \/ (x.e > -MantBits /\ x.m % 2^(-x.e) = 0)

(* |r - x| <= 2^-22 * max(|x|, |y|) *)
CloseTo(r, x, y) ==
  F32Le(F32Abs(F32Sub(r, x)), F32Mul(F32Pow2(-22), F32Max2(F32Abs(x), F32Abs(y))))

(* C6, amended: a.sub(b).add(b) equals a within floating-point tolerance   *)
(* when a, b and a - b are finite: each component differs from a's by at     *)
(* most 2^-22 * max(|a|, |b|) of that component; it is == a when the       *)
(* components are integers of magnitude at most 2^23.                      *)
C6_SubAdd ==
  call = "sub_add" =>
    /\ (Finite(a) /\ Finite(b) /\ Finite(sub(a, b))) =>
         CloseTo(pt.x, a.x, b.x) /\ CloseTo(pt.y, a.y, b.y)
    /\ (SmallInt(a.x) /\ SmallInt(a.y) /\ SmallInt(b.x) /\ SmallInt(b.y)) =>
         PointEq(pt, a)

C6_Witness ==
  /\ call = "sub_add"
  /\ a = Point(F32Int(8), F32Int(6))
  /\ b = Point(F32Int(2), F32Int(3))
  /\ pt = a

(* C7 as stated: for all points, a.distance_to(b) == b.distance_to(a) ==   *)
(* a.sub(b).abs(), it is >= 0, and a.distance_to(a) == 0.                  *)
C7_Original ==
  call = "distance_to" =>
    /\ F32Eq(sc, distance_to(b, a))
    /\ F32Eq(sc, abs(sub(a, b)))
    /\ F32Ge(sc, Zero(0))
    /\ F32Eq(distance_to(a, a), Zero(0))
    /\ F32Eq(distance_to(b, b), Zero(0))

(* C7, amended: for all points with finite coordinates, a.distance_to(b)   *)
(* == b.distance_to(a) == a.sub(b).abs(), it is >= 0, and                  *)
(* a.distance_to(a) == 0.                                                  *)
C7_DistanceTo ==
  (call = "distance_to" /\ Finite(a) /\ Finite(b)) =>
    /\ F32Eq(sc, distance_to(b, a))
    /\ F32Eq(sc, abs(sub(a, b)))
    /\ F32Ge(sc, Zero(0))
    /\ F32Eq(distance_to(a, a), Zero(0))
    /\ F32Eq(distance_to(b, b), Zero(0))

C7_Witness ==
  /\ call = "distance_to"
  /\ a = Point(F32Int(-2), F32Int(1))
  /\ b = Point(F32Int(2), F32Int(-2))
  /\ sc = F32Int(5)

UnitDone == call \in {"unit", "unit_abs"}

(* C8: for every non-zero vector v, v.unit() is v divided component-wise   *)
(* by v.abs() and v.unit().abs() is 1.0 within 0.000001, stated here for   *)
(* the vectors with finite components.  The code returns (inf, NaN) for    *)
(* (2^-75, 0) and (0, 0) for (2^64, 0): squared() underflows to 0 or       *)
(* overflows to infinity.                                                  *)
C8_UnitMagnitude ==
  (UnitDone /\ ~IsOrigin(a) /\ Finite(a)) =>
    /\ pt = Point(F32Div(a.x, abs(a)), F32Div(a.y, abs(a)))
    /\ call = "unit_abs" => F32Lt(F32Abs(F32Sub(sc, One)), Epsilon)

(* C9 as stated: unit() of the zero vector divides by zero and returns     *)
(* (NaN, NaN), as a value; for every vector with abs() != 0 neither        *)
(* component of the result is NaN.                                         *)
C9_Original ==
  UnitDone =>
    /\ IsOrigin(a) => F32Eq(abs(a), Zero(0)) /\ IsNaN(pt.x) /\ IsNaN(pt.y)
    /\ ~F32Eq(abs(a), Zero(0)) => ~IsNaN(pt.x) /\ ~IsNaN(pt.y)

(* C9, amended: unit() of the zero vector divides by zero and returns      *)
(* (NaN, NaN), as a value; for every vector with finite components and     *)
(* abs() != 0 neither component of the result is NaN.                      *)
C9_UnitNaN ==
  UnitDone =>
    /\ IsOrigin(a) => F32Eq(abs(a), Zero(0)) /\ IsNaN(pt.x) /\ IsNaN(pt.y)
    /\ (Finite(a) /\ ~F32Eq(abs(a), Zero(0))) => ~IsNaN(pt.x) /\ ~IsNaN(pt.y)

C9_Witness ==
  /\ call = "unit"
  /\ a = Origin
  /\ pt = Point(NaN, NaN)
====
